---- MODULE Spec2Model ----
(***************************************************************************)
(* The snake game of package game (src/game): the Game struct with its     *)
(* Snake, driven by the timer loop of handleGameLogic and by the KeyUp     *)
(* callback installed by processInput.  The loop runs in its own goroutine *)
(* and the callback in the window's main loop, with no lock between them;  *)
(* in the specification Spec one step is one whole iteration of the timer  *)
(* loop (a tick) or one whole call of the KeyUp callback.                  *)
(*                                                                         *)
(* Points carry float64 coordinates in the source; every coordinate the    *)
(* program produces is a small whole number, so they are integers here.    *)
(* A Point is the pair <<X, Y>>.  Go slices are 0-based, sequences here    *)
(* are 1-based: Parts[0] of the source is Parts[1] of the model.           *)
(*                                                                         *)
(* The variables last, ticks, nkeys and since are history variables: they  *)
(* record what happened and no operation of the program reads them.        *)
(***************************************************************************)
EXTENDS Integers, Sequences, FiniteSets, TLC

VARIABLES
    g,      \* the Game struct: snake (Direction, Parts, Size), food, score,
            \* ateFood, speed (param.speed), gameOver, needMove, needUpdateInfo,
            \* cv (the numbers the info area of the canvas shows)
    proc,   \* the process: "running", "exited" (os.Exit) or "panicked"
    last,   \* history: the last operation, its inputs and the Game before it
    ticks,  \* history: ticks executed so far (in the quiet runs: since the
            \* last key event)
    nkeys,  \* history: key events delivered so far
    since,  \* history: what the key events since the last tick did
    loop,   \* the goroutine of handleGameLogic: where it stands in the loop body
            \* (pc) and its local newPos
    cb      \* the KeyUp callback: where a call of it stands (pc) and the loop
            \* variable i of Reset

vars == <<g, proc, last, ticks, nkeys, since, loop, cb>>

----------------------------------------------------------------------------
(* Bounds of the exploration *)

\* ticks explored in one behaviour
MaxTicks == 5
\* key events explored in one behaviour
MaxKeys == 3
\* rand.Intn(n) is explored for the results 0..MaxRand and n-1
MaxRand == 4

\* ticks and key events of one behaviour of the long game
MaxDeepTicks == 9

MaxDeepKeys == 6

\* ticks and key events of one behaviour of the feeding game
MaxFeedTicks == 10

MaxFeedKeys == 2

\* ticks and key events of one behaviour of the long meal
MaxLongTicks == 64

MaxLongKeys == 3

\* ticks between two key events, and key events, of one behaviour of the
\* quiet runs
MaxQuietTicks == 21

MaxQuietKeys == 3

\* the values of Dir, the coordinates and the key codes the functions of
\* geometry.go are applied to: -1..MaxDir, -1..MaxCoord, 0..MaxKeyCode
MaxDir == 4

MaxCoord == 20

MaxKeyCode == 90

\* food ticks of one behaviour of the food loop
MaxFoodTicks == 2

----------------------------------------------------------------------------
(* Program constants *)

cellsCount == 20
startSpeed == 300

up == 0
right == 1
down == 2
left == 3

Dirs == {up, right, down, left}

\* the key codes of the arrow keys, as FromKey reads them
KeyRight == 79
KeyLeft == 80
KeyDown == 81
KeyUpArrow == 82

Point(x, y) == <<x, y>>
X(p) == p[1]
Y(p) == p[2]

\* Go's integer division truncates toward zero
GoDiv(a, b) ==
    IF (a >= 0) = (b > 0) THEN (IF a >= 0 THEN a ELSE -a) \div (IF b > 0 THEN b ELSE -b)
    ELSE -((IF a >= 0 THEN a ELSE -a) \div (IF b > 0 THEN b ELSE -b))

----------------------------------------------------------------------------
(* geometry.go *)

IsCorner(p) ==
    \/ X(p) = 0 /\ Y(p) = 0
    \/ X(p) = 0 /\ Y(p) = cellsCount - 1
    \/ X(p) = cellsCount - 1 /\ Y(p) = 0
    \/ X(p) = cellsCount - 1 /\ Y(p) = cellsCount - 1

IsEdge(p) ==
    X(p) = 0 \/ Y(p) = 0 \/ X(p) = cellsCount - 1 \/ Y(p) = cellsCount - 1

\* Exec with the y axis of the screen: up is y - 1
ExecScreenY(d, point) ==
    CASE d = up -> Point(X(point), Y(point) - 1)
      [] d = down -> Point(X(point), Y(point) + 1)
      [] d = left -> Point(X(point) - 1, Y(point))
      [] d = right -> Point(X(point) + 1, Y(point))
      [] OTHER -> point

Exec(d, point) ==
    CASE d = up -> Point(X(point), Y(point) + 1)
      [] d = down -> Point(X(point), Y(point) - 1)
      [] d = left -> Point(X(point) - 1, Y(point))
      [] d = right -> Point(X(point) + 1, Y(point))
      [] OTHER -> point

\* a key that is not an arrow key leaves the direction as it is
FromKeyKeepsDirection(d, ceyKode) ==
    CASE ceyKode = 80 -> left
      [] ceyKode = 82 -> down
      [] ceyKode = 79 -> right
      [] ceyKode = 81 -> up
      [] OTHER -> d

FromKey(d, ceyKode) ==
    CASE ceyKode = 80 -> left
      [] ceyKode = 82 -> down
      [] ceyKode = 79 -> right
      [] ceyKode = 81 -> up
      [] OTHER -> right

\* CheckParallel without the cases of right and left
CheckParallelVertical(d, newDir) ==
    CASE d = up -> newDir = down
      [] d = down -> newDir = up
      [] OTHER -> FALSE

\* CheckParallel taken for "the same direction"
CheckParallelSame(d, newDir) == newDir = d

CheckParallel(d, newDir) ==
    CASE d = up -> newDir = down
      [] d = right -> newDir = left
      [] d = down -> newDir = up
      [] d = left -> newDir = right
      [] OTHER -> FALSE

----------------------------------------------------------------------------
(* snake.go: the methods take the Snake s and return the Snake after the call *)

NewSnake == [Direction |-> up, Parts |-> <<>>, Size |-> 0]

SnakeLen(s) == Len(s.Parts)

\* the new cell is appended behind the tail
AddAtTail(s, point) == [s EXCEPT !.Parts = s.Parts \o <<point>>]

Add(s, point) == [s EXCEPT !.Parts = <<point>> \o s.Parts]

IsSnake(s, point) == \E i \in 1..Len(s.Parts) : s.Parts[i] = point

\* the index (0-based, as in the source) at which CutIfSnake stops, -1 if none
CutIndex(s, point) ==
    IF \E i \in 1..Len(s.Parts) : s.Parts[i] = point
    THEN (CHOOSE i \in 1..Len(s.Parts) :
             /\ s.Parts[i] = point
             /\ \A j \in 1..(i - 1) : s.Parts[j] # point) - 1
    ELSE -1

\* the match is reported and the body is left whole
CutIfSnakeKeepsBody(s, point) ==
    [ok |-> CutIndex(s, point) >= 0, s |-> s]

\* CutIfSnake returns [ok |-> the bool result, s |-> the Snake after the call]
CutIfSnake(s, point) ==
    LET i == CutIndex(s, point) IN
    IF i >= 0
    THEN [ok |-> TRUE, s |-> [s EXCEPT !.Parts = SubSeq(s.Parts, 1, i)]]
    ELSE [ok |-> FALSE, s |-> s]

SnakeHead(s) == IF Len(s.Parts) = 0 THEN Point(-1, -1) ELSE s.Parts[1]

SnakeTail(s) == IF Len(s.Parts) = 0 THEN Point(-1, -1) ELSE s.Parts[Len(s.Parts)]

\* the cells Reset appends, for i = length-1 down to 0: (x+i, y)
ResetParts == [k \in 1..3 |-> Point(1 + (3 - k), 1)]

\* Reset: Parts = []Point{}, Direction = right, three appends, each with Size++
Reset(s) == [Direction |-> right, Parts |-> ResetParts, Size |-> s.Size + 3]

\* every cell of the body takes the step of the head
MoveTranslatesAll(s, directional) ==
    [s EXCEPT !.Parts = [i \in 1..Len(s.Parts) |-> Exec(directional, s.Parts[i])]]

\* only the head takes the step, the other cells stay where they are
MoveHeadOnly(s, directional) ==
    [s EXCEPT !.Parts = [i \in 1..Len(s.Parts) |->
        IF i = 1 THEN Exec(directional, s.Parts[1]) ELSE s.Parts[i]]]

\* Move: the head goes to Exec, every other cell takes the place of the one before
Move(s, directional) ==
    [s EXCEPT !.Parts = [i \in 1..Len(s.Parts) |->
        IF i = 1 THEN Exec(directional, s.Parts[1]) ELSE s.Parts[i - 1]]]

----------------------------------------------------------------------------
(* game.go: the methods take the Game gm and return the Game after the call *)

\* NewGameParam, NewGame, setSnake(snake after its first Reset); nothing is
\* drawn on the canvas yet
NewGame ==
    [snake |-> Reset(NewSnake), food |-> Point(0, 0), score |-> 0, ateFood |-> 0,
     speed |-> startSpeed, gameOver |-> FALSE, needMove |-> FALSE,
     needUpdateInfo |-> FALSE, cv |-> <<>>]

\* collidesWithWall without the test of the lower bound of Y
collidesWithWallNoFloor(newPos) ==
    X(newPos) < 0 \/ X(newPos) >= cellsCount \/ Y(newPos) >= cellsCount

collidesWithWall(newPos) ==
    X(newPos) < 0 \/ X(newPos) >= cellsCount \/ Y(newPos) < 0 \/ Y(newPos) >= cellsCount

\* the results of rand.Intn(n) that are explored
Intn(n) == {v \in 0..(n - 1) : v <= MaxRand \/ v = n - 1}

\* the cells one pass of the loop of foodGeneration accepts
FreeCells(s) == {p \in Intn(cellsCount) \X Intn(cellsCount) : ~IsSnake(s, p)}

\* foodGeneration: every Game it can return with
foodGeneration(gm) == {[gm EXCEPT !.food = p] : p \in FreeCells(gm.snake)}

\* the multiplier is applied before the division
calculateScoreProductFirst(gm, pos) ==
    CASE IsCorner(pos) -> GoDiv(1000 * 4, gm.speed)
      [] IsEdge(pos) -> GoDiv(1000 * 2, gm.speed)
      [] OTHER -> GoDiv(1000, gm.speed)

calculateScore(gm, pos) ==
    CASE IsCorner(pos) -> GoDiv(1000, gm.speed) * 4
      [] IsEdge(pos) -> GoDiv(1000, gm.speed) * 2
      [] OTHER -> GoDiv(1000, gm.speed)

\* restartGame without the reset of the speed
restartGameKeepsSpeed(gm) ==
    [gm EXCEPT !.snake = Reset(gm.snake), !.score = 0, !.ateFood = 0, !.gameOver = FALSE]

restartGame(gm) ==
    [gm EXCEPT !.snake = Reset(gm.snake), !.score = 0, !.ateFood = 0,
               !.speed = 300, !.gameOver = FALSE]

\* the numbers drawGameInfo formats: the score, ateFood and the speed shown
InfoShown(gm) == <<gm.score, gm.ateFood, startSpeed - gm.speed + 5>>

\* drawGameInfo writes the three lines of the info area
drawGameInfo(gm) == [gm EXCEPT !.cv = InfoShown(gm)]

\* one call of the frame callback of renderLoop, lines 339-345: the info area
\* is cleared and drawn again only when needUpdateInfo is set
renderFrame(gm) ==
    IF gm.needUpdateInfo
    THEN [drawGameInfo(gm) EXCEPT !.needUpdateInfo = FALSE]
    ELSE gm

(* One iteration of the loop of handleGameLogic, in the order of the source *)

\* the game also ends when the prospective head is on the body
TickWallOrBody(gm, newPos) ==
    IF collidesWithWall(newPos) \/ IsSnake(gm.snake, newPos)
    THEN [gm EXCEPT !.gameOver = TRUE] ELSE gm

\* lines 182-184
TickWall(gm, newPos) ==
    IF collidesWithWall(newPos) THEN [gm EXCEPT !.gameOver = TRUE] ELSE gm

\* lines 186-191
TickCut(gm, newPos) ==
    LET c == CutIfSnake(gm.snake, newPos)
        newSize == Len(c.s.Parts)
    IN IF c.ok
       THEN [gm EXCEPT !.snake = [c.s EXCEPT !.Size = newSize],
                       !.score = GoDiv(gm.score, gm.snake.Size) * newSize,
                       !.needUpdateInfo = TRUE]
       ELSE gm

\* the food is generated before the new head is added
TickEatFoodFirst(gm, newPos) ==
    {[g2 EXCEPT !.snake = Add(g2.snake, newPos),
                !.ateFood = @ + 1,
                !.snake.Size = @ + 1,
                !.speed = @ - 5,
                !.score = @ + calculateScore([g2 EXCEPT !.speed = @ - 5], newPos),
                !.needUpdateInfo = TRUE]
     : g2 \in foodGeneration(gm)}

\* the food branch without the decrement of the speed
TickEatKeepsSpeed(gm, newPos) ==
    {[g2 EXCEPT !.ateFood = @ + 1,
                !.snake.Size = @ + 1,
                !.score = @ + calculateScore(g2, newPos),
                !.needUpdateInfo = TRUE]
     : g2 \in foodGeneration([gm EXCEPT !.snake = Add(gm.snake, newPos)])}

\* lines 195-201: Add, foodGeneration, then the counters; calculateScore reads
\* the speed after its decrement
TickEat(gm, newPos) ==
    {[g2 EXCEPT !.ateFood = @ + 1,
                !.snake.Size = @ + 1,
                !.speed = @ - 5,
                !.score = @ + calculateScore([g2 EXCEPT !.speed = @ - 5], newPos),
                !.needUpdateInfo = TRUE]
     : g2 \in foodGeneration([gm EXCEPT !.snake = Add(gm.snake, newPos)])}

\* lines 203-204
TickMove(gm) ==
    [gm EXCEPT !.snake = Move(gm.snake, gm.snake.Direction), !.needMove = TRUE]

\* the move is not in an else branch: it also follows the meal
TickResultsEatThenMove(gm) ==
    LET newPos == Exec(gm.snake.Direction, gm.snake.Parts[1])
        g2 == TickCut(TickWall(gm, newPos), newPos)
    IN IF newPos = g2.food THEN {TickMove(g3) : g3 \in TickEat(g2, newPos)}
       ELSE IF ~g2.gameOver THEN {TickMove(g2)}
       ELSE {g2}

\* the move is not guarded by the game over flag
TickResultsMoveWhenOver(gm) ==
    LET newPos == Exec(gm.snake.Direction, gm.snake.Parts[1])
        g2 == TickCut(TickWall(gm, newPos), newPos)
    IN IF newPos = g2.food THEN TickEat(g2, newPos)
       ELSE {TickMove(g2)}

\* the Games one tick can end with
TickResults(gm) ==
    LET newPos == Exec(gm.snake.Direction, gm.snake.Parts[1])
        g2 == TickCut(TickWall(gm, newPos), newPos)
    IN IF newPos = g2.food THEN TickEat(g2, newPos)
       ELSE IF ~g2.gameOver THEN {TickMove(g2)}
       ELSE {g2}

\* a tick panics on Parts[0] of an empty body (lines 181, 246) and on a
\* division by zero (lines 188, 248-252)
TickPanics(gm) ==
    \/ Len(gm.snake.Parts) = 0
    \/ LET newPos == Exec(gm.snake.Direction, gm.snake.Parts[1])
           g1 == TickWall(gm, newPos)
           c == CutIfSnake(g1.snake, newPos)
       IN \/ c.ok /\ g1.snake.Size = 0
          \/ newPos = g1.food /\ g1.speed - 5 = 0
          \/ newPos # g1.food /\ ~g1.gameOver /\ Len(c.s.Parts) = 0

\* the turn is applied and needMove is left set
KeyUpTurnKeepsNeedMove(gm, newDir) ==
    IF ~CheckParallel(gm.snake.Direction, newDir)
    THEN [gm EXCEPT !.snake.Direction = newDir]
    ELSE gm

\* lines 292-295 of the KeyUp callback
KeyUpTurn(gm, newDir) ==
    IF ~CheckParallel(gm.snake.Direction, newDir)
    THEN [gm EXCEPT !.snake.Direction = newDir, !.needMove = FALSE]
    ELSE gm

\* any key but Escape restarts a game that is over
KeyUpResultAnyKeyRestarts(gm, code, name) ==
    IF gm.gameOver /\ name # "Escape"
    THEN [g |-> [restartGame(gm) EXCEPT !.gameOver = FALSE], proc |-> "running"]
    ELSE IF gm.gameOver /\ name = "Escape"
    THEN [g |-> gm, proc |-> "exited"]
    ELSE IF 79 <= code /\ code <= 82 /\ gm.needMove
    THEN [g |-> KeyUpTurn(gm, FromKey(gm.snake.Direction, code)), proc |-> "running"]
    ELSE [g |-> gm, proc |-> "running"]

\* Escape ends the process whether the game is over or not
KeyUpResultEscapeAlways(gm, code, name) ==
    IF gm.gameOver /\ name = "Enter"
    THEN [g |-> [restartGame(gm) EXCEPT !.gameOver = FALSE], proc |-> "running"]
    ELSE IF name = "Escape"
    THEN [g |-> gm, proc |-> "exited"]
    ELSE IF 79 <= code /\ code <= 82 /\ gm.needMove
    THEN [g |-> KeyUpTurn(gm, FromKey(gm.snake.Direction, code)), proc |-> "running"]
    ELSE [g |-> gm, proc |-> "running"]

\* an arrow key is applied whether needMove is set or not
KeyUpResultIgnoresNeedMove(gm, code, name) ==
    IF gm.gameOver /\ name = "Enter"
    THEN [g |-> [restartGame(gm) EXCEPT !.gameOver = FALSE], proc |-> "running"]
    ELSE IF gm.gameOver /\ name = "Escape"
    THEN [g |-> gm, proc |-> "exited"]
    ELSE IF 79 <= code /\ code <= 82
    THEN [g |-> KeyUpTurn(gm, FromKey(gm.snake.Direction, code)), proc |-> "running"]
    ELSE [g |-> gm, proc |-> "running"]

\* FromKey is called for every key code
KeyUpResultAnyCode(gm, code, name) ==
    IF gm.gameOver /\ name = "Enter"
    THEN [g |-> [restartGame(gm) EXCEPT !.gameOver = FALSE], proc |-> "running"]
    ELSE IF gm.gameOver /\ name = "Escape"
    THEN [g |-> gm, proc |-> "exited"]
    ELSE IF gm.needMove
    THEN [g |-> KeyUpTurn(gm, FromKey(gm.snake.Direction, code)), proc |-> "running"]
    ELSE [g |-> gm, proc |-> "running"]

\* the KeyUp callback of processInput: the Game and the process after the call
KeyUpResult(gm, code, name) ==
    IF gm.gameOver /\ name = "Enter"
    THEN [g |-> [restartGame(gm) EXCEPT !.gameOver = FALSE], proc |-> "running"]
    ELSE IF gm.gameOver /\ name = "Escape"
    THEN [g |-> gm, proc |-> "exited"]
    ELSE IF 79 <= code /\ code <= 82 /\ gm.needMove
    THEN [g |-> KeyUpTurn(gm, FromKey(gm.snake.Direction, code)), proc |-> "running"]
    ELSE [g |-> gm, proc |-> "running"]

----------------------------------------------------------------------------
(* The state machine *)

\* the key events pressed: the scancode and the name sdlcanvas gives it
Keys ==
    {[code |-> KeyRight, name |-> "ArrowRight"], [code |-> KeyLeft, name |-> "ArrowLeft"],
     [code |-> KeyDown, name |-> "ArrowDown"], [code |-> KeyUpArrow, name |-> "ArrowUp"],
     [code |-> 40, name |-> "Enter"], [code |-> 41, name |-> "Escape"],
     [code |-> 44, name |-> "Space"]}

\* what the history records of a key event: the direction an arrow key asks
\* for (the y axis of the grid grows with the Down arrow) and whether it is
\* the reverse of direction d
ArrowDir(code) ==
    CASE code = KeyRight -> right
      [] code = KeyLeft -> left
      [] code = KeyDown -> up
      [] code = KeyUpArrow -> down

Reverses(d, e) == {d, e} = {up, down} \/ {d, e} = {left, right}

NoKeys == [turns |-> 0, valid |-> 0, restarts |-> 0]

\* RunGame up to the return of the first foodGeneration in run
Init ==
    /\ g \in foodGeneration(NewGame)
    /\ proc = "running"
    /\ last = [op |-> "init", code |-> 0, name |-> "", pre |-> NewGame]
    /\ ticks = 0
    /\ nkeys = 0
    /\ since = NoKeys
    /\ loop = [pc |-> "timer", newPos |-> Point(0, 0)]
    /\ cb = [pc |-> "none", i |-> 0]

\* one iteration of the loop of handleGameLogic, as one step
TickBody ==
    /\ proc = "running"
    /\ IF TickPanics(g)
       THEN /\ proc' = "panicked"
            /\ g' = g
       ELSE /\ proc' = proc
            /\ g' \in TickResults(g)
    /\ last' = [op |-> "tick", code |-> 0, name |-> "", pre |-> g]
    /\ ticks' = ticks + 1
    /\ nkeys' = nkeys
    /\ since' = NoKeys
    /\ loop' = loop
    /\ cb' = cb

\* one call of the KeyUp callback with a key of the set keys, as one step
KeyUpBody(keys) ==
    /\ proc = "running"
    /\ \E k \in keys :
          LET r == KeyUpResult(g, k.code, k.name)
              arrow == k.code \in {KeyRight, KeyLeft, KeyDown, KeyUpArrow}
          IN /\ g' = r.g
             /\ proc' = r.proc
             /\ last' = [op |-> "key", code |-> k.code, name |-> k.name, pre |-> g]
             /\ since' =
                  [turns |-> IF arrow /\ r.g.snake.Direction # g.snake.Direction
                             THEN since.turns + 1 ELSE since.turns,
                   valid |-> IF arrow /\ ~Reverses(g.snake.Direction, ArrowDir(k.code))
                             THEN since.valid + 1 ELSE since.valid,
                   restarts |-> IF r.g.gameOver # g.gameOver
                                THEN since.restarts + 1 ELSE since.restarts]
    /\ ticks' = ticks
    /\ nkeys' = nkeys + 1
    /\ loop' = loop
    /\ cb' = cb

\* the timer fires
Tick == ticks < MaxTicks /\ TickBody

\* the window delivers a key-up event to the callback
KeyUp == nkeys < MaxKeys /\ KeyUpBody(Keys)

Next == Tick \/ KeyUp

Spec == Init /\ [][Next]_vars

(* The long game: the same two steps, followed further along fewer inputs.
   The food falls on one of the cells of DeepFood and the keys are those the
   callback acts on: arrow keys while needMove is set, Enter during game over. *)

DeepFood == {Point(4, 1), Point(2, 0), Point(0, 0), Point(19, 19)}

ArrowKeys == {k \in Keys : k.code \in {KeyRight, KeyLeft, KeyDown, KeyUpArrow}}

InitDeep == Init /\ g.food \in DeepFood

TickDeep == ticks < MaxDeepTicks /\ TickBody /\ g'.food \in DeepFood

\* the keys the callback acts on in the Game gm
DeepKeys(gm) ==
    {k \in Keys : \/ k \in ArrowKeys /\ gm.needMove
                  \/ k.name = "Enter" /\ gm.gameOver}

KeyUpDeep == nkeys < MaxDeepKeys /\ KeyUpBody(DeepKeys(g))

NextDeep == TickDeep \/ KeyUpDeep

SpecDeep == InitDeep /\ [][NextDeep]_vars

(* The feeding game: rand.Intn(cellsCount) returns any of 0..19, and the draws
   followed here are those that put the new food on the free cell in front of
   the head, so that the snake eats at every tick of a straight run. *)

\* the cell in front of the head, when foodGeneration accepts it
FoodAhead(gm) ==
    {p \in (0..(cellsCount - 1)) \X (0..(cellsCount - 1)) :
        /\ p = Exec(gm.snake.Direction, gm.snake.Parts[1])
        /\ ~IsSnake(gm.snake, p)}

\* the Game h a tick ends with, its food drawn in front of the head if the
\* tick has generated one
FedResults(gm, h) ==
    IF h.ateFood # gm.ateFood /\ FoodAhead(h) # {}
    THEN {[h EXCEPT !.food = p] : p \in FoodAhead(h)}
    ELSE {h}

InitFeed == Init /\ g.food \in FoodAhead(g)

TickFeed ==
    /\ proc = "running"
    /\ ticks < MaxFeedTicks
    /\ IF TickPanics(g)
       THEN /\ proc' = "panicked"
            /\ g' = g
       ELSE /\ proc' = proc
            /\ \E h \in TickResults(g) : g' \in FedResults(g, h)
    /\ last' = [op |-> "tick", code |-> 0, name |-> "", pre |-> g]
    /\ ticks' = ticks + 1
    /\ nkeys' = nkeys
    /\ since' = NoKeys
    /\ loop' = loop
    /\ cb' = cb

KeyUpFeed == nkeys < MaxFeedKeys /\ KeyUpBody(ArrowKeys)

NextFeed == TickFeed \/ KeyUpFeed

SpecFeed == InitFeed /\ [][NextFeed]_vars

(* The long meal: the draws followed put the new food in front of the head,
   next to it when needMove is set and one cell further when it is not (a
   move then sets it), or beside the head when it faces a wall; the player
   turns at the walls only, so that the snake eats its way along the border
   of the grid. *)

\* the cells foodGeneration accepts among those of the set cells
FreeOf(gm, cells) ==
    {p \in cells : /\ X(p) \in 0..(cellsCount - 1)
                   /\ Y(p) \in 0..(cellsCount - 1)
                   /\ ~IsSnake(gm.snake, p)}

\* the free cells the food is drawn on: in front of the head, or one or two
\* steps to its sides when there is none in front
FoodNear(gm) ==
    LET h == gm.snake.Parts[1]
        d == gm.snake.Direction
        steps(e) == {Exec(e, h), Exec(e, Exec(e, h))}
        front == FreeOf(gm, {IF gm.needMove THEN Exec(d, h) ELSE Exec(d, Exec(d, h))})
    IN IF front # {} THEN front
       ELSE FreeOf(gm, UNION {steps(e) : e \in {e \in Dirs : ~CheckParallel(d, e) /\ e # d}})

\* the Game h a tick ends with, its food drawn near the head if the tick has
\* generated one
NearResults(gm, h) ==
    IF h.ateFood # gm.ateFood /\ FoodNear(h) # {}
    THEN {[h EXCEPT !.food = p] : p \in FoodNear(h)}
    ELSE {h}

InitLong ==
    /\ g \in {[NewGame EXCEPT !.food = p] : p \in FoodNear(NewGame)}
    /\ proc = "running"
    /\ last = [op |-> "init", code |-> 0, name |-> "", pre |-> NewGame]
    /\ ticks = 0
    /\ nkeys = 0
    /\ since = NoKeys
    /\ loop = [pc |-> "timer", newPos |-> Point(0, 0)]
    /\ cb = [pc |-> "none", i |-> 0]

TickLong ==
    /\ proc = "running"
    /\ ticks < MaxLongTicks
    /\ IF TickPanics(g)
       THEN /\ proc' = "panicked"
            /\ g' = g
       ELSE /\ proc' = proc
            /\ \E h \in TickResults(g) : g' \in NearResults(g, h)
    /\ last' = [op |-> "tick", code |-> 0, name |-> "", pre |-> g]
    /\ ticks' = ticks + 1
    /\ nkeys' = nkeys
    /\ since' = NoKeys
    /\ loop' = loop
    /\ cb' = cb

\* an arrow key pressed when the head faces a wall and needMove is set
KeyUpLong ==
    /\ nkeys < MaxLongKeys
    /\ g.needMove
    /\ collidesWithWall(Exec(g.snake.Direction, g.snake.Parts[1]))
    /\ KeyUpBody(ArrowKeys)

NextLong == TickLong \/ KeyUpLong

SpecLong == InitLong /\ [][NextLong]_vars

(* The quiet runs: the long meal again, with ticks counting the ticks since
   the last key event (since the start when there was none), so that every
   run of ticks without a key event is followed for MaxQuietTicks ticks. *)

TickQuiet ==
    /\ proc = "running"
    /\ ticks < MaxQuietTicks
    /\ IF TickPanics(g)
       THEN /\ proc' = "panicked"
            /\ g' = g
       ELSE /\ proc' = proc
            /\ \E h \in TickResults(g) : g' \in NearResults(g, h)
    /\ last' = [op |-> "tick", code |-> 0, name |-> "", pre |-> g]
    /\ ticks' = ticks + 1
    /\ nkeys' = nkeys
    /\ since' = NoKeys
    /\ loop' = loop
    /\ cb' = cb

\* an arrow key pressed when the head faces a wall and needMove is set; the
\* count of the ticks starts again
KeyUpQuiet ==
    /\ proc = "running"
    /\ nkeys < MaxQuietKeys
    /\ g.needMove
    /\ collidesWithWall(Exec(g.snake.Direction, g.snake.Parts[1]))
    /\ \E k \in ArrowKeys :
          LET r == KeyUpResult(g, k.code, k.name)
          IN /\ g' = r.g
             /\ proc' = r.proc
             /\ last' = [op |-> "key", code |-> k.code, name |-> k.name, pre |-> g]
    /\ ticks' = 0
    /\ nkeys' = nkeys + 1
    /\ since' = NoKeys
    /\ loop' = loop
    /\ cb' = cb

NextQuiet == TickQuiet \/ KeyUpQuiet

SpecQuiet == InitLong /\ [][NextQuiet]_vars

(* The game with more keys: the key events of Spec and those of keys that are
   neither arrows nor Enter nor Escape, the scancodes next to those of the
   arrows among them. *)

OtherKeys ==
    {[code |-> 78, name |-> "PageDown"], [code |-> 83, name |-> "NumLock"],
     [code |-> 4, name |-> "KeyA"], [code |-> 44, name |-> "Space"]}

KeyUpAny == nkeys < MaxKeys /\ KeyUpBody(Keys \cup OtherKeys)

NextKeys == Tick \/ KeyUpAny

SpecKeys == Init /\ [][NextKeys]_vars

(* The game with its frames: renderLoop draws the info area once and then runs
   the main loop of the window, which calls the frame callback and delivers
   the key events; the ticks are those of Spec. *)

\* renderLoop up to the main loop: the first drawGameInfo (line 313)
RenderStart ==
    /\ proc = "running"
    /\ g.cv = <<>>
    /\ g' = drawGameInfo(g)
    /\ last' = [op |-> "draw", code |-> 0, name |-> "", pre |-> g]
    /\ UNCHANGED <<proc, ticks, nkeys, since, loop, cb>>

\* the main loop calls the frame callback
RenderFrame ==
    /\ proc = "running"
    /\ g.cv # <<>>
    /\ g' = renderFrame(g)
    /\ last' = [op |-> "frame", code |-> 0, name |-> "", pre |-> g]
    /\ UNCHANGED <<proc, ticks, nkeys, since, loop, cb>>

\* the main loop delivers a key-up event
KeyUpRender == g.cv # <<>> /\ KeyUp

NextRender == Tick \/ KeyUpRender \/ RenderStart \/ RenderFrame

SpecRender == Init /\ [][NextRender]_vars

(* The loop and the callback as they run: handleGameLogic is a goroutine of its
   own (go g.handleGameLogic() in run) and nothing orders its statements with
   the calls of the KeyUp callback, so a call of the callback can fall between
   any two statements of the loop body.  The loop body is taken in three
   steps: lines 181-184, lines 186-191, lines 194-205. *)

\* lines 181-184: newPos from the direction and the head, the wall test
TickRead ==
    /\ proc = "running"
    /\ ticks < MaxTicks
    /\ loop.pc = "timer"
    /\ IF Len(g.snake.Parts) = 0
       THEN /\ proc' = "panicked"
            /\ UNCHANGED <<g, loop>>
       ELSE LET newPos == Exec(g.snake.Direction, g.snake.Parts[1])
            IN /\ g' = TickWall(g, newPos)
               /\ loop' = [pc |-> "cut", newPos |-> newPos]
               /\ proc' = proc
    /\ last' = [op |-> "read", code |-> 0, name |-> "", pre |-> g]
    /\ UNCHANGED <<ticks, nkeys, since, cb>>

\* lines 186-191: CutIfSnake and the rescaled score
TickCutStep ==
    /\ proc = "running"
    /\ loop.pc = "cut"
    /\ IF CutIfSnake(g.snake, loop.newPos).ok /\ g.snake.Size = 0
       THEN /\ proc' = "panicked"
            /\ UNCHANGED <<g, loop>>
       ELSE /\ g' = TickCut(g, loop.newPos)
            /\ loop' = [loop EXCEPT !.pc = "food"]
            /\ proc' = proc
    /\ last' = [op |-> "cut", code |-> 0, name |-> "", pre |-> g]
    /\ UNCHANGED <<ticks, nkeys, since, cb>>

\* lines 194-205: the food branch, or Move with the direction read again
TickEnd ==
    /\ proc = "running"
    /\ loop.pc = "food"
    /\ IF \/ loop.newPos = g.food /\ g.speed - 5 = 0
          \/ loop.newPos # g.food /\ ~g.gameOver /\ Len(g.snake.Parts) = 0
       THEN /\ proc' = "panicked"
            /\ UNCHANGED <<g, loop>>
       ELSE /\ g' \in IF loop.newPos = g.food THEN TickEat(g, loop.newPos)
                      ELSE IF ~g.gameOver THEN {TickMove(g)}
                      ELSE {g}
            /\ loop' = [loop EXCEPT !.pc = "timer"]
            /\ proc' = proc
    /\ last' = [op |-> "tick", code |-> 0, name |-> "", pre |-> g]
    /\ ticks' = ticks + 1
    /\ nkeys' = nkeys
    /\ since' = NoKeys
    /\ cb' = cb

NextRace == TickRead \/ TickCutStep \/ TickEnd \/ KeyUp

SpecRace == Init /\ [][NextRace]_vars

(* The restart as it runs: the call of the callback that restarts the game is
   taken statement by statement, each of which the three steps of the loop
   body can precede or follow.  The other calls of the callback are single
   steps and start when no call is under way. *)

\* the keys whose call does not restart the Game gm
PlainKeys(gm) == {k \in Keys : ~(gm.gameOver /\ k.name = "Enter")}

KeyUpPlain == nkeys < MaxKeys /\ cb.pc = "none" /\ KeyUpBody(PlainKeys(g))

\* Enter during game over: the callback calls restartGame, which calls Reset,
\* which empties Parts and sets the direction
RestartCall ==
    /\ proc = "running"
    /\ nkeys < MaxKeys
    /\ cb.pc = "none"
    /\ g.gameOver
    /\ g' = [g EXCEPT !.snake.Parts = <<>>, !.snake.Direction = right]
    /\ cb' = [pc |-> "append", i |-> 2]
    /\ last' = [op |-> "key", code |-> 40, name |-> "Enter", pre |-> g]
    /\ nkeys' = nkeys + 1
    /\ UNCHANGED <<proc, ticks, since, loop>>

\* one pass of the loop of Reset: append Point{x+i, y}, Size++
ResetAppend ==
    /\ proc = "running"
    /\ cb.pc = "append"
    /\ g' = [g EXCEPT !.snake.Parts = @ \o <<Point(1 + cb.i, 1)>>,
                      !.snake.Size = @ + 1]
    /\ cb' = IF cb.i = 0 THEN [pc |-> "restart", i |-> 0]
                         ELSE [pc |-> "append", i |-> cb.i - 1]
    /\ last' = [op |-> "append", code |-> 40, name |-> "Enter", pre |-> g]
    /\ UNCHANGED <<proc, ticks, nkeys, since, loop>>

\* the rest of restartGame and the return of the callback
RestartReturn ==
    /\ proc = "running"
    /\ cb.pc = "restart"
    /\ g' = [g EXCEPT !.score = 0, !.ateFood = 0, !.speed = 300, !.gameOver = FALSE]
    /\ cb' = [pc |-> "none", i |-> 0]
    /\ last' = [op |-> "restart", code |-> 40, name |-> "Enter", pre |-> g]
    /\ UNCHANGED <<proc, ticks, nkeys, since, loop>>

NextReset ==
    \/ TickRead \/ TickCutStep \/ TickEnd
    \/ KeyUpPlain \/ RestartCall \/ ResetAppend \/ RestartReturn

SpecReset == Init /\ [][NextReset]_vars

(* The functions of geometry.go by themselves: each behaviour is one call, and
   the history records the call, its arguments and what it returned. *)

DirValues == (-1)..MaxDir

Positions == ((-1)..MaxCoord) \X ((-1)..MaxCoord)

KeyCodes == 0..MaxKeyCode

InitGeom ==
    /\ g = NewGame
    /\ proc = "running"
    /\ last = [op |-> "init"]
    /\ ticks = 0
    /\ nkeys = 0
    /\ since = NoKeys
    /\ loop = [pc |-> "timer", newPos |-> Point(0, 0)]
    /\ cb = [pc |-> "none", i |-> 0]

CallExec ==
    /\ last.op = "init"
    /\ \E d \in DirValues, point \in Positions :
          last' = [op |-> "Exec", d |-> d, point |-> point, out |-> Exec(d, point)]
    /\ UNCHANGED <<g, proc, ticks, nkeys, since, loop, cb>>

CallCheckParallel ==
    /\ last.op = "init"
    /\ \E d \in DirValues, d2 \in DirValues :
          last' = [op |-> "CheckParallel", d |-> d, d2 |-> d2, out |-> CheckParallel(d, d2)]
    /\ UNCHANGED <<g, proc, ticks, nkeys, since, loop, cb>>

CallFromKey ==
    /\ last.op = "init"
    /\ \E d \in DirValues, ceyKode \in KeyCodes :
          last' = [op |-> "FromKey", d |-> d, ceyKode |-> ceyKode, out |-> FromKey(d, ceyKode)]
    /\ UNCHANGED <<g, proc, ticks, nkeys, since, loop, cb>>

NextGeom == CallExec \/ CallCheckParallel \/ CallFromKey

SpecGeom == InitGeom /\ [][NextGeom]_vars

(* The loop of foodGeneration by itself: a food tick calls it after Add, each
   pass draws a cell of the grid, and the pass that draws a cell off the snake
   returns to the tick.  It is applied to the start position and to snakes
   that leave one cell and no cell of the grid free, which fill the grid row
   after row from (0,0). *)

\* the k-th cell (from 0) of the path that fills the grid row after row,
\* rightwards on the even rows and leftwards on the odd ones
SerpentCell(k) ==
    LET y == k \div cellsCount
        c == k % cellsCount
    IN Point(IF y % 2 = 0 THEN c ELSE cellsCount - 1 - c, y)

\* a Game whose snake lies on the first n cells of that path, on the last row,
\* its head towards the next cell, which holds the food
SerpentGame(n) ==
    [NewGame EXCEPT !.snake = [Direction |-> left,
                               Parts |-> [i \in 1..n |-> SerpentCell(n - i)],
                               Size |-> n],
                    !.food = SerpentCell(n)]

FoodInputs ==
    {[NewGame EXCEPT !.food = Point(4, 1)],
     SerpentGame(cellsCount * cellsCount - 2),
     SerpentGame(cellsCount * cellsCount - 1)}

InitFood ==
    /\ g \in FoodInputs
    /\ proc = "running"
    /\ last = [op |-> "init", code |-> 0, name |-> "", pre |-> NewGame]
    /\ ticks = 0
    /\ nkeys = 0
    /\ since = NoKeys
    /\ loop = [pc |-> "timer", newPos |-> Point(0, 0)]
    /\ cb = [pc |-> "none", i |-> 0]

\* accepting a cell the snake is on
FoodPassAcceptsAny(gm, p) == TRUE

\* lines 220-226: the pass of the loop that drew the cell p returns
FoodPassAccepts(gm, p) == ~IsSnake(gm.snake, p)

\* what rand.Intn(cellsCount) draws in one pass
DrawnCells == (0..(cellsCount - 1)) \X (0..(cellsCount - 1))

\* a tick whose newPos is the food, up to the call of foodGeneration
FoodCall ==
    /\ proc = "running"
    /\ ticks < MaxFoodTicks
    /\ loop.pc = "timer"
    /\ LET newPos == Exec(g.snake.Direction, g.snake.Parts[1])
           g2 == TickCut(TickWall(g, newPos), newPos)
       IN /\ newPos = g2.food
          /\ g' = [g2 EXCEPT !.snake = Add(g2.snake, newPos)]
          /\ loop' = [pc |-> "foodGeneration", newPos |-> newPos]
    /\ last' = [op |-> "call"]
    /\ UNCHANGED <<proc, ticks, nkeys, since, cb>>

\* a pass that drew a cell of the snake: the loop goes on
FoodReject ==
    /\ proc = "running"
    /\ loop.pc = "foodGeneration"
    /\ \E p \in DrawnCells :
          /\ ~FoodPassAccepts(g, p)
          /\ last' = [op |-> "reject"]
    /\ UNCHANGED <<g, proc, ticks, nkeys, since, loop, cb>>

\* a pass that drew a free cell: foodGeneration returns and the tick ends
FoodAccept ==
    /\ proc = "running"
    /\ loop.pc = "foodGeneration"
    /\ \E p \in DrawnCells :
          /\ FoodPassAccepts(g, p)
          /\ g' = [g EXCEPT !.food = p,
                            !.ateFood = @ + 1,
                            !.snake.Size = @ + 1,
                            !.speed = @ - 5,
                            !.score = @ + calculateScore([g EXCEPT !.speed = @ - 5],
                                                         loop.newPos),
                            !.needUpdateInfo = TRUE]
          /\ last' = [op |-> "accept"]
    /\ loop' = [loop EXCEPT !.pc = "timer"]
    /\ ticks' = ticks + 1
    /\ UNCHANGED <<proc, nkeys, since, cb>>

NextFood == FoodCall \/ FoodReject \/ FoodAccept

\* the draws are fair: a pass that draws a free cell comes if there is one
SpecFood == InitFood /\ [][NextFood]_vars /\ WF_vars(FoodAccept)

----------------------------------------------------------------------------
(* Package modules, the older game: snake.go, geometry.go and game.go of
   src/modules.  Its Game has no needUpdateInfo, its Snake has no Direction:
   the direction is snakeDirection, a local of SnakeMovement that the loop and
   the KeyUp callback share and guard with snakeLock.  The loop holds the lock
   over the whole body of a tick and the callback over its switch, so a tick
   and a call of the callback are single steps. *)

modulesExec(d, point) ==
    CASE d = up -> Point(X(point), Y(point) + 1)
      [] d = down -> Point(X(point), Y(point) - 1)
      [] d = left -> Point(X(point) - 1, Y(point))
      [] d = right -> Point(X(point) + 1, Y(point))
      [] OTHER -> point

modulesCheckParallel(d, d2) ==
    CASE d = up -> d2 = down
      [] d = right -> d2 = left
      [] d = down -> d2 = up
      [] d = left -> d2 = right
      [] OTHER -> FALSE

modulesNewSnake == [Parts |-> <<>>, Size |-> 0]

modulesAdd(s, point) == [s EXCEPT !.Parts = <<point>> \o s.Parts]

modulesIsSnake(s, point) == \E i \in 1..Len(s.Parts) : s.Parts[i] = point

\* CutIfSnake returns [ok |-> the bool result, s |-> the Snake after the call]
modulesCutIfSnake(s, point) ==
    IF modulesIsSnake(s, point)
    THEN LET i == CHOOSE i \in 1..Len(s.Parts) :
                     /\ s.Parts[i] = point
                     /\ \A j \in 1..(i - 1) : s.Parts[j] # point
         IN [ok |-> TRUE, s |-> [s EXCEPT !.Parts = SubSeq(s.Parts, 1, i - 1)]]
    ELSE [ok |-> FALSE, s |-> s]

\* Reset appends the three cells to the Parts it finds, each with Size++
modulesReset(s) ==
    [Parts |-> s.Parts \o [k \in 1..3 |-> Point(1 + (3 - k), 1)], Size |-> s.Size + 3]

\* Move: the head goes to Exec, lastPoint carries each cell to the next place
modulesMove(s, directional) ==
    [s EXCEPT !.Parts = [i \in 1..Len(s.Parts) |->
        IF i = 1 THEN modulesExec(directional, s.Parts[1]) ELSE s.Parts[i - 1]]]

\* main (NewSnake, Reset, NewGame, SetSnake) and the locals of SnakeMovement
modulesNewGame ==
    [snake |-> modulesReset(modulesNewSnake), food |-> Point(0, 0), score |-> 0,
     ateFood |-> 0, speed |-> 300, gameOver |-> FALSE, needMove |-> FALSE,
     snakeDirection |-> right]

\* FoodGeneration: every Game it can return with; it spins for ever when the
\* game is over
modulesFoodGeneration(gm) ==
    IF gm.gameOver THEN {}
    ELSE {[gm EXCEPT !.food = p] :
            p \in {q \in Intn(20 - 0) \X Intn(20 - 0) : ~modulesIsSnake(gm.snake, q)}}

\* lines 129-137: the score of the food at newPos
modulesFoodScore(gm, newPos) ==
    CASE \/ X(newPos) = 0 /\ Y(newPos) = 0
         \/ X(newPos) = 0 /\ Y(newPos) = 19
         \/ X(newPos) = 19 /\ Y(newPos) = 0
         \/ X(newPos) = 19 /\ Y(newPos) = 19 -> GoDiv(1000, gm.speed) * 4
      [] X(newPos) = 0 \/ Y(newPos) = 0 \/ X(newPos) = 19 \/ Y(newPos) = 19
           -> GoDiv(1000, gm.speed) * 2
      [] OTHER -> GoDiv(1000, gm.speed)

\* lines 113-122: newPos, the wall test, CutIfSnake and the rescaled score
modulesTickCut(gm) ==
    LET newPos == modulesExec(gm.snakeDirection, gm.snake.Parts[1])
        g1 == IF X(newPos) < 0 \/ X(newPos) > 19 \/ Y(newPos) < 0 \/ Y(newPos) > 19
              THEN [gm EXCEPT !.gameOver = TRUE] ELSE gm
        c == modulesCutIfSnake(g1.snake, newPos)
        newSize == Len(c.s.Parts)
    IN IF c.ok
       THEN [g1 EXCEPT !.snake = [c.s EXCEPT !.Size = newSize],
                       !.score = GoDiv(g1.score, g1.snake.Size) * newSize]
       ELSE g1

\* lines 126-143: the food branch
modulesTickEat(gm, newPos) ==
    LET g3 == [gm EXCEPT !.ateFood = @ + 1,
                        !.snake.Size = @ + 1,
                        !.score = @ + modulesFoodScore(gm, newPos)]
    IN {[g6 EXCEPT !.speed = @ - 5] :
          g6 \in UNION {modulesFoodGeneration([g4 EXCEPT !.snake = modulesAdd(g4.snake, newPos)])
                          : g4 \in modulesFoodGeneration(g3)}}

\* the tick runs its body although the game is over
modulesTickResultsWhenOver(gm) ==
    LET newPos == modulesExec(gm.snakeDirection, gm.snake.Parts[1])
        g2 == modulesTickCut(gm)
    IN IF newPos = g2.food THEN modulesTickEat(g2, newPos)
       ELSE IF ~g2.gameOver
       THEN {[g2 EXCEPT !.snake = modulesMove(g2.snake, g2.snakeDirection),
                        !.needMove = FALSE]}
       ELSE {g2}

\* lines 111-150: the Games one tick can end with
modulesTickResults(gm) ==
    IF gm.gameOver THEN {gm}
    ELSE LET newPos == modulesExec(gm.snakeDirection, gm.snake.Parts[1])
             g2 == modulesTickCut(gm)
         IN IF newPos = g2.food THEN modulesTickEat(g2, newPos)
            ELSE IF ~g2.gameOver
            THEN {[g2 EXCEPT !.snake = modulesMove(g2.snake, g2.snakeDirection),
                             !.needMove = FALSE]}
            ELSE {g2}

\* lines 83-107: the KeyUp callback; needMove is never set, so the test of
\* line 84 never returns
modulesKeyUp(gm, code) ==
    IF (code < 79 /\ code > 82) \/ gm.needMove THEN gm
    ELSE LET newDir == CASE code = 80 -> left
                         [] code = 82 -> down
                         [] code = 79 -> right
                         [] code = 81 -> up
                         [] OTHER -> gm.snakeDirection
         IN IF ~modulesCheckParallel(gm.snakeDirection, newDir)
            THEN [gm EXCEPT !.snakeDirection = newDir]
            ELSE gm

InitModules ==
    /\ g \in modulesFoodGeneration(modulesNewGame)
    /\ proc = "running"
    /\ last = [op |-> "init", code |-> 0, name |-> "", pre |-> modulesNewGame]
    /\ ticks = 0
    /\ nkeys = 0
    /\ since = NoKeys
    /\ loop = [pc |-> "timer", newPos |-> Point(0, 0)]
    /\ cb = [pc |-> "none", i |-> 0]

\* the timer fires: one pass of the loop of SnakeMovement
TickModules ==
    /\ proc = "running"
    /\ ticks < MaxTicks
    /\ g' \in modulesTickResults(g)
    /\ last' = [op |-> "tick", code |-> 0, name |-> "", pre |-> g]
    /\ ticks' = ticks + 1
    /\ since' = NoKeys
    /\ UNCHANGED <<proc, nkeys, loop, cb>>

\* the window delivers a key-up event to the callback
KeyUpModules ==
    /\ proc = "running"
    /\ nkeys < MaxKeys
    /\ \E k \in Keys :
          /\ g' = modulesKeyUp(g, k.code)
          /\ last' = [op |-> "key", code |-> k.code, name |-> k.name, pre |-> g]
          /\ since' = [since EXCEPT
                         !.turns = IF g'.snakeDirection # g.snakeDirection
                                   THEN @ + 1 ELSE @]
    /\ nkeys' = nkeys + 1
    /\ UNCHANGED <<proc, ticks, loop, cb>>

NextModules == TickModules \/ KeyUpModules

SpecModules == InitModules /\ [][NextModules]_vars

----------------------------------------------------------------------------
(* Vocabulary of the properties, stated on the grid and on the history *)

InGrid(p) == X(p) \in 0..19 /\ Y(p) \in 0..19

OnBody(parts, p) == p \in {parts[i] : i \in 1..Len(parts)}

StartBody == <<Point(3, 1), Point(2, 1), Point(1, 1)>>

\* the cell next to p in each direction
Step(d, p) ==
    CASE d = up -> Point(X(p), Y(p) + 1)
      [] d = down -> Point(X(p), Y(p) - 1)
      [] d = left -> Point(X(p) - 1, Y(p))
      [] d = right -> Point(X(p) + 1, Y(p))

\* the last step was a completed tick; Prospective is the head it aimed at
TickDone == last.op = "tick" /\ proc = "running"

Prospective == Step(last.pre.snake.Direction, last.pre.snake.Parts[1])

\* the last step was a key event: an arrow key, Enter during game over
ArrowKeyDone == last.op = "key" /\ last.code \in 79..82

EnterDone == last.op = "key" /\ last.name = "Enter" /\ last.pre.gameOver

\* what game over is said to freeze
Frozen(gm) == <<gm.snake.Parts, gm.snake.Size, gm.food, gm.score, gm.ateFood, gm.speed>>

----------------------------------------------------------------------------
(* Properties *)

\* C1: a tick whose prospective head is outside the grid sets gameOver and
\* leaves the body, the food, the score, ateFood and the speed as they were.
C1_WallTick ==
    (TickDone /\ ~InGrid(Prospective)) =>
        /\ g.gameOver
        /\ g.snake.Parts = last.pre.snake.Parts
        /\ g.food = last.pre.food
        /\ g.score = last.pre.score
        /\ g.ateFood = last.pre.ateFood
        /\ g.speed = last.pre.speed

\* a running game has just ended on a wall
C1_Witness ==
    TickDone /\ ~InGrid(Prospective) /\ ~last.pre.gameOver /\ g.gameOver

C3_GameOverFreezes ==
    (last.pre.gameOver /\ (TickDone \/ (last.op = "key" /\ last.name # "Enter"))) =>
        Frozen(g) = Frozen(last.pre)

\* C4: Enter during game over leaves gameOver false, score 0, ateFood 0,
\* speed 300, the body [(3,1),(2,1),(1,1)] and Direction Right.
C4_Restart ==
    EnterDone =>
        /\ ~g.gameOver
        /\ g.score = 0
        /\ g.ateFood = 0
        /\ g.speed = 300
        /\ g.snake.Parts = StartBody
        /\ g.snake.Direction = right

\* a game in which food was eaten and the snake had turned has been restarted
C4_Witness ==
    EnterDone /\ last.pre.ateFood > 0 /\ last.pre.score > 0 /\ last.pre.snake.Direction # right

\* C5: after every Reset, the first one and every one on restart, the snake is
\* [(3,1),(2,1),(1,1)], heads Right and has Size 3.
C5_ResetSize ==
    (last.op = "init" \/ EnterDone) =>
        /\ g.snake.Parts = StartBody
        /\ g.snake.Direction = right
        /\ g.snake.Size = 3

\* C6: the snake cannot reverse.  The direction of the head's previous advance
\* is the one that leads from Parts[1] to Parts[0] (both Move and Add leave the
\* old head behind the new one, and Reset lays the body out heading Right); the
\* direction a tick advances the head in is never its reverse, and in no state
\* is the prospective head the cell Parts[1].
C6_NoReverse ==
    /\ Len(g.snake.Parts) >= 2 =>
          Step(g.snake.Direction, g.snake.Parts[1]) # g.snake.Parts[2]
    /\ (TickDone /\ g.snake.Parts[1] # last.pre.snake.Parts[1]) =>
          /\ Len(last.pre.snake.Parts) >= 2
          /\ g.snake.Parts[1] = Prospective
          /\ \E d \in Dirs :
                /\ Step(d, last.pre.snake.Parts[2]) = last.pre.snake.Parts[1]
                /\ ~Reverses(d, last.pre.snake.Direction)

\* an arrow key asking for the reverse of Direction has arrived while a key
\* could be applied
C6_Witness ==
    /\ ArrowKeyDone
    /\ last.pre.needMove
    /\ ~last.pre.gameOver
    /\ Reverses(last.pre.snake.Direction, ArrowDir(last.code))
    /\ g.snake.Direction = last.pre.snake.Direction

\* C7: between two ticks at most one arrow key changes Direction, and an arrow
\* key that finds needMove cleared leaves Direction as it is.
C7_OneTurnPerTick ==
    /\ since.turns <= 1
    /\ (ArrowKeyDone /\ ~last.pre.needMove) => g.snake.Direction = last.pre.snake.Direction

\* a second arrow key, one that asks for a turn, has been ignored
C7_Witness ==
    /\ ArrowKeyDone
    /\ since.turns = 1
    /\ ~last.pre.needMove
    /\ ~last.pre.gameOver
    /\ ArrowDir(last.code) # last.pre.snake.Direction
    /\ ~Reverses(last.pre.snake.Direction, ArrowDir(last.code))

\* C8: after a tick that leaves the game running, the first arrow key that
\* does not ask for the reverse of Direction is applied.
C8_FirstKeyApplied ==
    (/\ ArrowKeyDone
     /\ ticks >= 1
     /\ ~last.pre.gameOver
     /\ since.restarts = 0
     /\ since.valid = 1
     /\ ~Reverses(last.pre.snake.Direction, ArrowDir(last.code)))
    => g.snake.Direction = ArrowDir(last.code)

\* C9: from the first food generation on, the food is never on the body.
C9_FoodOffBody == ~OnBody(g.snake.Parts, g.food)

\* C10: whenever foodGeneration has just returned (at the start, and on a tick
\* that ate), the food is in the grid and on no cell of the body, the new head
\* included.
C10_FoodGenerated ==
    (last.op = "init" \/ (TickDone /\ Prospective = last.pre.food)) =>
        /\ InGrid(g.food)
        /\ ~OnBody(g.snake.Parts, g.food)
        /\ TickDone => (g.snake.Parts[1] = Prospective /\ g.food # Prospective)

\* a tick has eaten and the food has been placed anew
C10_Witness ==
    /\ TickDone
    /\ Prospective = last.pre.food
    /\ g.ateFood = last.pre.ateFood + 1
    /\ g.snake.Parts[1] = Prospective

\* the cells of the old body in front of the first one equal to p, all of
\* them when p is not on the body
KeptBody(parts, p) ==
    IF OnBody(parts, p)
    THEN SubSeq(parts, 1, (CHOOSE i \in 1..Len(parts) :
                              /\ parts[i] = p
                              /\ \A j \in 1..(i - 1) : parts[j] # p) - 1)
    ELSE parts

\* parts without its last cell
AllButLast(parts) == SubSeq(parts, 1, Len(parts) - 1)

\* the last step was a completed tick of a game that was not over
RunningTickDone == TickDone /\ ~last.pre.gameOver

\* C11: a tick of a running game whose prospective head p is in the grid, off
\* the body and not the food turns the body [c0..cn-1] into [p, c0..cn-2] and
\* leaves the score, ateFood, the speed and the food as they were.
C11_MoveTick ==
    (/\ RunningTickDone
     /\ InGrid(Prospective)
     /\ ~OnBody(last.pre.snake.Parts, Prospective)
     /\ Prospective # last.pre.food) =>
        /\ g.snake.Parts = <<Prospective>> \o AllButLast(last.pre.snake.Parts)
        /\ Len(g.snake.Parts) = Len(last.pre.snake.Parts)
        /\ g.score = last.pre.score
        /\ g.ateFood = last.pre.ateFood
        /\ g.speed = last.pre.speed
        /\ g.food = last.pre.food

\* a bent body has moved: the head went up from (4,1) and the body follows
C11_Witness ==
    /\ RunningTickDone
    /\ last.pre.snake.Parts = <<Point(4, 1), Point(3, 1), Point(2, 1)>>
    /\ last.pre.snake.Direction = up
    /\ Prospective # last.pre.food
    /\ g.snake.Parts = <<Point(4, 2), Point(4, 1), Point(3, 1)>>

\* C12: a tick of a running game whose prospective head p is the food turns
\* the body [c0..cn-1] into [p, c0..cn-1], adds one to ateFood and to Size,
\* takes 5 from the speed and puts the food on another cell.
C12_FoodTick ==
    (RunningTickDone /\ Prospective = last.pre.food) =>
        /\ g.snake.Parts = <<Prospective>> \o last.pre.snake.Parts
        /\ Len(g.snake.Parts) = Len(last.pre.snake.Parts) + 1
        /\ g.ateFood = last.pre.ateFood + 1
        /\ g.snake.Size = last.pre.snake.Size + 1
        /\ g.speed = last.pre.speed - 5
        /\ g.food # last.pre.food

\* the food at (4,1) has been eaten from the start position
C12_Witness ==
    /\ RunningTickDone
    /\ last.pre.food = Point(4, 1)
    /\ last.pre.snake.Parts = StartBody
    /\ g.snake.Parts = <<Point(4, 1)>> \o StartBody
    /\ g.ateFood = last.pre.ateFood + 1

\* C13: a tick of a running game whose prospective head p is in the grid
\* applies exactly one of Add and Move to the body left by CutIfSnake: Add
\* (one cell more, none dropped) when p is the food, Move (same length, last
\* cell dropped) when it is not.
C13_AddXorMove ==
    (RunningTickDone /\ InGrid(Prospective)) =>
        LET kept == KeptBody(last.pre.snake.Parts, Prospective)
            added == g.snake.Parts = <<Prospective>> \o kept
            moved == g.snake.Parts = <<Prospective>> \o AllButLast(kept)
        IN /\ added <=> Prospective = last.pre.food
           /\ moved <=> Prospective # last.pre.food

\* a food tick and, in the same game, a later tick that only moved
C13_Witness ==
    /\ RunningTickDone
    /\ InGrid(Prospective)
    /\ Prospective # last.pre.food
    /\ last.pre.ateFood = 1
    /\ Len(g.snake.Parts) = 4
    /\ g.snake.Parts[1] = Prospective

\* C14: CutIfSnake(p) cuts the body down to the cells in front of the first
\* one equal to p and returns true, or returns false and leaves the body as
\* it was; after a tick whose prospective head p was on the body at index i,
\* the body has i cells and its head is p.
C14_SelfBite ==
    TickDone =>
        LET parts == last.pre.snake.Parts
            c == CutIfSnake(last.pre.snake, Prospective)
        IN IF OnBody(parts, Prospective)
           THEN /\ c.ok
                /\ c.s.Parts = KeptBody(parts, Prospective)
                /\ Len(g.snake.Parts) = Len(KeptBody(parts, Prospective))
                /\ g.snake.Parts[1] = Prospective
           ELSE /\ ~c.ok
                /\ c.s = last.pre.snake

\* C15: after a tick whose prospective head was on the body, the score is
\* score * newBodyLength / oldBodyLength, the product taken before the
\* quotient, oldBodyLength being the number of cells before the cut.
C15_Rescale ==
    (TickDone /\ OnBody(last.pre.snake.Parts, Prospective)
              /\ Prospective # last.pre.food) =>
        LET oldBodyLength == Len(last.pre.snake.Parts)
            newBodyLength == Len(KeptBody(last.pre.snake.Parts, Prospective))
        IN g.score = (last.pre.score * newBodyLength) \div oldBodyLength

\* the multiplier of a cell: 4 in a corner, 2 on an edge off the corners, 1 inside
Multiplier(p) ==
    LET onX == X(p) \in {0, 19}
        onY == Y(p) \in {0, 19}
    IN IF onX /\ onY THEN 4 ELSE IF onX \/ onY THEN 2 ELSE 1

\* the three cases of calculateScore, as predicates of a cell
ScoreCases(p) == <<IsCorner(p), IsEdge(p) /\ ~IsCorner(p), ~IsEdge(p) /\ ~IsCorner(p)>>

\* C16: the score a food tick adds is (1000 div s) * m, the quotient taken
\* first, s being the speed calculateScore reads and m the multiplier of the
\* eaten cell: 4 in a corner, 2 on an edge off the corners, 1 inside; for
\* every cell of the grid exactly one of the three cases applies.
C16_FoodScore ==
    /\ (TickDone /\ Prospective = last.pre.food) =>
          g.score - last.pre.score = (1000 \div g.speed) * Multiplier(Prospective)
    /\ ticks = 0 =>
          \A p \in (0..19) \X (0..19) :
             /\ Cardinality({c \in 1..3 : ScoreCases(p)[c]}) = 1
             /\ \A k \in 1..60 :
                   calculateScore([g EXCEPT !.speed = 5 * k], p)
                      = (1000 \div (5 * k)) * Multiplier(p)

\* the food in the corner (0,0) has been eaten: 12 points at speed 295 or 290
C16_Witness ==
    /\ TickDone
    /\ Prospective = last.pre.food
    /\ Prospective = Point(0, 0)
    /\ g.snake.Parts[1] = Point(0, 0)
    /\ g.score = last.pre.score + 12

\* C17: the speed s of the score of a food tick is the speed before the tick
\* takes 5 from it.
C17_SpeedBeforeDecrement ==
    (TickDone /\ Prospective = last.pre.food) =>
        g.score - last.pre.score = (1000 \div last.pre.speed) * Multiplier(Prospective)

\* C18: with ticks and key events taken as single steps, every cell of the
\* body has both coordinates in 0..19 in every reachable state.
C18_BodyInGrid ==
    \A i \in 1..Len(g.snake.Parts) : InGrid(g.snake.Parts[i])

\* the head stands on the row 0 and the tick aimed below it
C18_Witness ==
    /\ TickDone
    /\ Y(last.pre.snake.Parts[1]) = 0
    /\ Y(Prospective) = -1
    /\ g.snake.Parts = last.pre.snake.Parts
    /\ \A i \in 1..Len(g.snake.Parts) : InGrid(g.snake.Parts[i])

\* C19: with ticks and key events taken as single steps, the body holds no cell
\* twice after any tick, key event or restart.
C19_NoDuplicateCells ==
    \A i, j \in 1..Len(g.snake.Parts) :
        g.snake.Parts[i] = g.snake.Parts[j] => i = j

\* a body of 5 cells has bitten itself at index 3 and is left with 3 distinct cells
C19_Witness ==
    /\ RunningTickDone
    /\ Len(last.pre.snake.Parts) = 5
    /\ last.pre.snake.Parts[4] = Prospective
    /\ Len(g.snake.Parts) = 3
    /\ Cardinality({g.snake.Parts[i] : i \in 1..3}) = 3

\* C20: a tick is serialized against the callback: the direction that gave
\* the prospective head is the direction that moves the head, so that a tick
\* that has moved the head has put it on the cell newPos it checked.
C20_TickSerialized ==
    (/\ last.op = "tick"
     /\ proc = "running"
     /\ g.snake.Parts # last.pre.snake.Parts) =>
        g.snake.Parts[1] = loop.newPos

\* C21: the body is never empty when a tick reads its head: whatever the
\* interleaving of the loop with a restart, the tick finds at least one cell
\* in Parts when it evaluates Parts[0].
C21_HeadReadNonEmpty ==
    last.op = "read" => Len(last.pre.snake.Parts) >= 1

\* C22: the speed stops at a positive floor: whatever the number of foods
\* eaten, speed > 0 in every reachable state and the division 1000 / speed of
\* the score never fails.
C22_SpeedFloor ==
    /\ g.speed > 0
    /\ ~(proc = "panicked" /\ last.op = "tick" /\ Prospective = last.pre.food)

Opposite(d) ==
    CASE d = up -> down
      [] d = down -> up
      [] d = left -> right
      [] d = right -> left

\* C25: for each of the four directions d and every position p, Exec(d, p)
\* differs from p in exactly one coordinate, by exactly 1 (Up y+1, Down y-1,
\* Left x-1, Right x+1), and Exec of the opposite direction leads back to p;
\* for a value that is not a direction Exec returns p.
C25_Exec ==
    last.op = "Exec" =>
        LET p == last.point
            q == last.out
            dx == X(q) - X(p)
            dy == Y(q) - Y(p)
        IN IF last.d \in {up, right, down, left}
           THEN /\ q = Step(last.d, p)
                /\ \/ dx = 0 /\ dy \in {-1, 1}
                   \/ dy = 0 /\ dx \in {-1, 1}
                /\ Exec(Opposite(last.d), q) = p
           ELSE q = p

\* Exec has been called with Up on the head of the start body
C25_Witness ==
    /\ last.op = "Exec"
    /\ last.d = up
    /\ last.point = Point(3, 1)
    /\ last.out = Point(3, 2)

\* C26: for the four directions, CheckParallel(d, e) is true exactly when e is
\* the opposite of d; it is then symmetric, false for d and d, and false for
\* every pair of perpendicular directions.
C26_CheckParallel ==
    (/\ last.op = "CheckParallel"
     /\ last.d \in {up, right, down, left}
     /\ last.d2 \in {up, right, down, left}) =>
        /\ last.out <=> last.d2 = Opposite(last.d)
        /\ last.out = CheckParallel(last.d2, last.d)
        /\ ~CheckParallel(last.d, last.d)

\* CheckParallel has been called with Left and Right and has returned true
C26_Witness ==
    /\ last.op = "CheckParallel"
    /\ last.d = left
    /\ last.d2 = right
    /\ last.out

\* C27: FromKey maps the key code 80 to Left, 79 to Right, 82 to Down, 81 to
\* Up and every other key code to Right, whatever the direction it is called on.
C27_FromKey ==
    last.op = "FromKey" =>
        /\ last.out = CASE last.ceyKode = 80 -> left
                         [] last.ceyKode = 79 -> right
                         [] last.ceyKode = 82 -> down
                         [] last.ceyKode = 81 -> up
                         [] OTHER -> right
        /\ \A d \in DirValues : FromKey(d, last.ceyKode) = last.out

\* FromKey has been called on Up with the code of the space bar and returned Right
C27_Witness ==
    /\ last.op = "FromKey"
    /\ last.d = up
    /\ last.ceyKode = 44
    /\ last.out = right

\* the cells of the grid the snake is not on
CellsFree == ((0..19) \X (0..19)) \ {g.snake.Parts[i] : i \in 1..Len(g.snake.Parts)}

SomeCellFree == CellsFree # {}

GridCovered == CellsFree = {}

InFoodGeneration == loop.pc = "foodGeneration"

\* C28: with fair draws foodGeneration returns if and only if a cell of the
\* grid is free of the snake: called with a free cell it returns, called with
\* the snake on every cell it never does, and the tick that called it never
\* ends, so that no later tick fires.
C28_FoodGenerationReturns ==
    /\ [](InFoodGeneration /\ SomeCellFree => <>(~InFoodGeneration))
    /\ [](InFoodGeneration /\ GridCovered => [](InFoodGeneration /\ GridCovered))

\* foodGeneration is looping with the snake on all 400 cells
C28_Witness ==
    /\ InFoodGeneration
    /\ Len(g.snake.Parts) = 400
    /\ GridCovered
    /\ last.op = "reject"

\* the head a tick of package modules aims at
ModulesProspective == Step(last.pre.snakeDirection, last.pre.snake.Parts[1])

\* C29: in package modules at most one change of direction is applied between
\* two ticks, so that the prospective head of a tick is never the cell behind
\* the head: the snake cannot turn back into its neck.
C29_ModulesOneTurn ==
    /\ since.turns <= 1
    /\ (last.op = "tick" /\ ~last.pre.gameOver /\ Len(last.pre.snake.Parts) >= 2) =>
          ModulesProspective # last.pre.snake.Parts[2]

\* C30: in package modules gameOver is absorbing: once true it stays true,
\* and no tick and no key event changes the body, Size, the food, the score,
\* ateFood or the speed any more.
C30_ModulesGameOverAbsorbing ==
    last.pre.gameOver =>
        /\ g.gameOver
        /\ Frozen(g) = Frozen(last.pre)

\* a key has turned the direction of a game that is over and a tick has
\* followed that left the game as it was
C30_Witness ==
    /\ last.op = "tick"
    /\ last.pre.gameOver
    /\ g = last.pre
    /\ Y(g.snake.Parts[1]) = 0
    /\ g.snakeDirection \in {left, right}
    /\ Step(g.snakeDirection, g.snake.Parts[1]) = g.food

----------------------------------------------------------------------------
\* C31: in package game, in every state between two ticks, the speed is
\* 300 - 5 * ateFood, after any sequence of ticks, key events and restarts
C31_SpeedOfAteFood ==
    g.speed = 300 - 5 * g.ateFood

\* Enter has restarted a game that was over with food eaten
C31_Witness ==
    /\ last.op = "key"
    /\ last.name = "Enter"
    /\ last.pre.gameOver
    /\ last.pre.ateFood > 0
    /\ last.pre.speed < 300
    /\ g.ateFood = 0
    /\ g.speed = 300

\* C32: with ticks and key events taken as single steps, the body has at least
\* 3 cells in every reachable state, and a tick whose prospective head is on
\* the body finds it at an index (counted from 0) of 3 or more.
C32_AtLeastThreeCells ==
    /\ Len(g.snake.Parts) >= 3
    /\ (TickDone /\ OnBody(last.pre.snake.Parts, Prospective)) =>
           /\ CutIndex(last.pre.snake, Prospective) >= 3
           /\ Len(CutIfSnake(last.pre.snake, Prospective).s.Parts) >= 3

\* a running snake of 4 cells has bitten its tail, at index 3, and keeps 3 cells
C32_Witness ==
    /\ RunningTickDone
    /\ Len(last.pre.snake.Parts) = 4
    /\ CutIndex(last.pre.snake, Prospective) = 3
    /\ Prospective # last.pre.food
    /\ Len(g.snake.Parts) = 3

\* two cells that differ by exactly 1 in exactly one coordinate
Neighbours(p, q) ==
    \/ X(p) = X(q) /\ (Y(p) - Y(q)) \in {-1, 1}
    \/ Y(p) = Y(q) /\ (X(p) - X(q)) \in {-1, 1}

\* C33: with ticks and key events taken as single steps, the body is a
\* connected path in every reachable state: every two consecutive cells
\* Parts[i] and Parts[i+1] are grid neighbours.
C33_ConnectedPath ==
    \A i \in 1..(Len(g.snake.Parts) - 1) :
        Neighbours(g.snake.Parts[i], g.snake.Parts[i + 1])

\* a food tick has added a head to a body that has turned a corner
C33_Witness ==
    /\ RunningTickDone
    /\ Len(g.snake.Parts) = Len(last.pre.snake.Parts) + 1
    /\ Len(g.snake.Parts) >= 5
    /\ g.snake.Parts[1] = Prospective
    /\ X(SnakeHead(g.snake)) # X(SnakeTail(g.snake))
    /\ Y(SnakeHead(g.snake)) # Y(SnakeTail(g.snake))

\* the ticks since the last key event, which the quiet runs count in ticks
QuietTicks == ticks

\* C34: without key events gameOver becomes true within 20 ticks of any state
\* of a running game: after 20 ticks without a key event gameOver is set, and
\* the process does not end with gameOver unset.
C34_GameOverWithin20 ==
    /\ (QuietTicks >= cellsCount) => g.gameOver
    /\ (proc = "panicked") => g.gameOver

\* the bound by itself: after 20 ticks without a key event gameOver is set
C34_QuietBound ==
    (QuietTicks >= cellsCount) => g.gameOver

\* the 20th tick after a key event has set gameOver
C34_Twentieth ==
    /\ RunningTickDone
    /\ ticks = cellsCount
    /\ g.gameOver

\* the info area shows other numbers than drawGameInfo would draw now
InfoStale == g.cv # <<>> /\ g.cv # InfoShown(g)

\* C35: whenever the score, ateFood or the speed differ from the values
\* drawGameInfo drew last, needUpdateInfo is set, after food ticks, self-bite
\* ticks and restarts alike.
C35_StaleInfoFlagged ==
    InfoStale => g.needUpdateInfo

\* the same for every step but the restart
C35_FlaggedButRestart ==
    (InfoStale /\ ~EnterDone /\ (last.pre.cv = <<>> \/ last.pre.cv = InfoShown(last.pre)
                                   \/ last.pre.needUpdateInfo))
        => g.needUpdateInfo

\* the last step was a key event of a key that is no arrow, not Enter and not
\* Escape
OtherKeyDone ==
    /\ last.op = "key"
    /\ last.code \notin 79..82
    /\ last.name \notin {"Enter", "Escape"}

====
